---- MODULE Spec2Model ----
(***************************************************************************)
(* A model of src/Example/functions.py: the three Zarr loaders             *)
(* (load_fiber_data, load_vibration_data, load_other), the fiber aligner   *)
(* (process_fibers) and the vibration timestamp reconstruction             *)
(* (process_vibration).                                                    *)
(*                                                                         *)
(* A Python mapping whose key order is observable (a Zarr store, a Zarr    *)
(* group, a dict, a DataFrame) is a sequence of <<key, value>> pairs with  *)
(* distinct keys.  A nullable cell (NaN / NaT) is <<>>, a present cell     *)
(* holding v is <<v>>.                                                     *)
(***************************************************************************)
EXTENDS Integers, Sequences, FiniteSets, TLC

VARIABLES
    zarr_store,     \* the store the loaders read (never written)
    call,           \* the loader call last made: [fn, ...arguments]
    outcome,        \* what that call did: an exception raised or a DataFrame returned
    fiber_1,        \* process_fibers: left input table (rows)
    fiber_2,        \* process_fibers: right input table (rows)
    fiber,          \* process_fibers: [done, right_indexer, table]
    vib_in,         \* process_vibration: [v101, v102, v103, sample_rate]
    vibration       \* process_vibration: [done, blocks, table]

vars == <<zarr_store, call, outcome, fiber_1, fiber_2, fiber, vib_in, vibration>>

(***************************************************************************)
(* Bounds of the model.                                                    *)
(***************************************************************************)
MaxLen == 2         \* longest dataset stored in a group
MaxRequest == 2     \* longest sensor_numbers list passed to load_fiber_data

(***************************************************************************)
(* Python mappings with observable key order.                              *)
(***************************************************************************)
Keys(m) == [i \in 1..Len(m) |-> m[i][1]]

Contains(m, k) == \E i \in 1..Len(m) : m[i][1] = k

Get(m, k) == m[CHOOSE i \in 1..Len(m) : m[i][1] = k][2]

\* d[k] = v on a dict: an existing key keeps its position and takes the new
\* value, a new key goes last.
DictSet(d, k, v) ==
    IF Contains(d, k)
    THEN [i \in 1..Len(d) |-> IF d[i][1] = k THEN <<k, v>> ELSE d[i]]
    ELSE Append(d, <<k, v>>)

RECURSIVE DictUpdate(_, _)
\* {**d, **e}: the items of e are set into d in e's order.
DictUpdate(d, e) ==
    IF e = <<>> THEN d
    ELSE DictUpdate(DictSet(d, e[1][1], e[1][2]), Tail(e))

(***************************************************************************)
(* Outcomes of a call.                                                     *)
(***************************************************************************)
NoCall == [fn |-> "none"]

NoOutcome == [raised |-> "none", message |-> <<"">>, returned |-> FALSE,
              df |-> <<>>, examined |-> <<>>]

Raise(exc, message, examined) ==
    [raised |-> exc, message |-> message, returned |-> FALSE,
     df |-> <<>>, examined |-> examined]

Return(df, examined) ==
    [raised |-> "none", message |-> <<"">>, returned |-> TRUE,
     df |-> df, examined |-> examined]

\* pd.DataFrame(dict of arrays): one column per dict key, in dict order; pandas
\* refuses arrays of different lengths with a ValueError.
DataFrame(data, examined) ==
    IF \A i, j \in 1..Len(data) : Len(data[i][2]) = Len(data[j][2])
    THEN Return(data, examined)
    ELSE Raise("ValueError", <<"All arrays must be of the same length">>, examined)

(***************************************************************************)
(* load_fiber_data                                                         *)
(***************************************************************************)
\* str(n) and the f-strings that build names from numbers.
Str(n) == ToString(n)

FiberGroupName(fiber_number) == "fibers_" \o Str(fiber_number)

VibrationGroupName(vibration_number) == "vibration_" \o Str(vibration_number)

\* Mutant of SensorColumn: the columns are numbered from zero.
SensorColumnFromZero(s_num) == "sensor_" \o Str(s_num - 1)

SensorColumn(s_num) == "sensor_" \o Str(s_num)

\* Mutant of AvailableGroups: the listing loses the last group.
AvailableGroupsButLast(store) == SubSeq(Keys(store), 1, Len(store) - 1)

\* list(zarr_store.keys()), as the KeyError messages print it.
AvailableGroups(store) == Keys(store)

GroupNotFoundError(store, group_name) ==
    Raise("KeyError",
          <<"Group not found in the Zarr store", group_name, AvailableGroups(store)>>,
          <<>>)

\* if isinstance(sensor_numbers, int): sensor_numbers = [sensor_numbers]
EnsureList(sensor_numbers) ==
    IF sensor_numbers.type = "int" THEN <<sensor_numbers.value>>
    ELSE sensor_numbers.value

\* Mutant of LengthsDiffer: the alignment check is left out.
LengthsNeverDiffer(values, timestamps) == FALSE

\* if len(values) != len(timestamps): raise
LengthsDiffer(values, timestamps) == Len(values) # Len(timestamps)

RECURSIVE LoadSensors(_, _, _, _, _, _)
\* The loop over the requested sensors; it stops at the first raise.
LoadSensors(fiber_group, group_name, timestamps, sensor_numbers, data, examined) ==
    IF sensor_numbers = <<>> THEN DataFrame(data, examined)
    ELSE LET s_num == Head(sensor_numbers)
             s_str == Str(s_num)
             seen  == Append(examined, s_str)
         IN  IF ~Contains(fiber_group, s_str)
             THEN Raise("ValueError", <<"Dataset not found", s_str, group_name>>, seen)
             ELSE LET values == Get(fiber_group, s_str)
                  IN  IF LengthsDiffer(values, timestamps)
                      THEN Raise("ValueError",
                                 <<"Length mismatch", Len(timestamps), Len(values),
                                   s_str, group_name>>, seen)
                      ELSE LoadSensors(fiber_group, group_name, timestamps,
                                       Tail(sensor_numbers),
                                       DictSet(data, SensorColumn(s_num), values),
                                       seen)

load_fiber_data(store, fiber_number, sensor_numbers) ==
    LET numbers    == EnsureList(sensor_numbers)
        group_name == FiberGroupName(fiber_number)
    IN  IF ~Contains(store, group_name) THEN GroupNotFoundError(store, group_name)
        ELSE LET fiber_group == Get(store, group_name)
             IN  IF ~Contains(fiber_group, "0")
                 THEN Raise("ValueError", <<"Dataset not found", "0", group_name>>, <<"0">>)
                 ELSE LET timestamps == Get(fiber_group, "0")
                      IN  LoadSensors(fiber_group, group_name, timestamps, numbers,
                                      <<<<"timestamp", timestamps>>>>, <<"0">>)

(***************************************************************************)
(* load_vibration_data                                                     *)
(***************************************************************************)
\* if 'Timestamp' not in vib_group or 'Data' not in vib_group: raise
LacksTimestampOrData(vib_group) ==
    ~Contains(vib_group, "Timestamp") \/ ~Contains(vib_group, "Data")

load_vibration_data(store, vibration_number) ==
    LET group_name == VibrationGroupName(vibration_number)
    IN  IF ~Contains(store, group_name) THEN GroupNotFoundError(store, group_name)
        ELSE LET vib_group == Get(store, group_name)
                 seen == <<"Timestamp", "Data">>
             IN  IF LacksTimestampOrData(vib_group)
                 THEN Raise("ValueError",
                            <<"Group must contain 'Timestamp' and 'Data' datasets",
                              group_name>>, seen)
                 ELSE LET timestamps == Get(vib_group, "Timestamp")
                          values     == Get(vib_group, "Data")
                      IN  IF Len(timestamps) # Len(values)
                          THEN Raise("ValueError",
                                     <<"Mismatch between timestamps and values",
                                       Len(timestamps), Len(values), group_name>>, seen)
                          ELSE DataFrame(<<<<"timestamp", timestamps>>,
                                           <<"data", values>>>>, seen)

(***************************************************************************)
(* load_other                                                              *)
(***************************************************************************)
TimeKey == "__time_UTC__s__"

\* pd.DataFrame({'timestamp': timestamps, **data}) when the group has the
\* time key, pd.DataFrame(data) when it has not (timestamps = <<>> is None).
OtherFrameDict(timestamps, data) ==
    IF timestamps # <<>>
    THEN DictUpdate(<<<<"timestamp", timestamps[1]>>>>, data)
    ELSE data

load_other(store, group_name) ==
    IF ~Contains(store, group_name) THEN GroupNotFoundError(store, group_name)
    ELSE LET data_group     == Get(store, group_name)
             available_keys == Keys(data_group)
         IN  IF available_keys = <<>>
             THEN Raise("ValueError", <<"No datasets found in group", group_name>>, <<>>)
             ELSE LET timestamp_column ==
                          IF Contains(data_group, TimeKey) THEN <<TimeKey>> ELSE <<>>
                      timestamps ==
                          IF timestamp_column # <<>>
                          THEN <<Get(data_group, TimeKey)>> ELSE <<>>
                      data_columns ==
                          SelectSeq(available_keys,
                                    LAMBDA key : <<key>> # timestamp_column)
                      seen == <<TimeKey>> \o data_columns
                  IN  IF data_columns = <<>>
                      THEN Raise("ValueError",
                                 <<"No data columns found in group", group_name>>,
                                 <<TimeKey>>)
                      ELSE LET data == [i \in 1..Len(data_columns) |->
                                          <<data_columns[i],
                                            Get(data_group, data_columns[i])>>]
                           IN  DataFrame(OtherFrameDict(timestamps, data), seen)

(***************************************************************************)
(* The stores and the requests the loaders are tried on.                   *)
(***************************************************************************)
DatasetKeys == <<"0", "1", "2", "Data", "Timestamp", TimeKey, "timestamp", "x">>

\* The dataset of n elements stored under key: its elements tell the key.
Dataset(key, n) ==
    [i \in 1..n |-> 10 * (CHOOSE k \in 1..Len(DatasetKeys) : DatasetKeys[k] = key) + i]

Datasets(key) == {Dataset(key, n) : n \in 0..MaxLen}

RECURSIVE GroupsOver(_)
\* Every group whose keys are a subsequence of keys, each holding a dataset.
GroupsOver(keys) ==
    IF keys = <<>> THEN {<<>>}
    ELSE LET rest == GroupsOver(Tail(keys))
         IN  rest \cup {<<<<Head(keys), a>>>> \o g : a \in Datasets(Head(keys)), g \in rest}

FiberGroups == GroupsOver(<<"0", "1", "2">>)

VibrationGroups == GroupsOver(<<"Data", "Timestamp">>)

GenericKeys == {TimeKey, "timestamp", "x"}

GenericGroups ==
    UNION {GroupsOver(p) :
             p \in {q \in [1..Cardinality(GenericKeys) -> GenericKeys] :
                      \A i, j \in DOMAIN q : q[i] = q[j] => i = j}}

DefaultFiberGroup ==
    <<<<"0", Dataset("0", 1)>>, <<"1", Dataset("1", 1)>>, <<"2", Dataset("2", 1)>>>>

DefaultVibrationGroup ==
    <<<<"Data", Dataset("Data", 1)>>, <<"Timestamp", Dataset("Timestamp", 1)>>>>

DefaultGenericGroup == <<<<TimeKey, Dataset(TimeKey, 1)>>, <<"x", Dataset("x", 1)>>>>

\* A store holding the given groups; <<>> leaves a group out.
StoreOf(g, f, v) ==
    (IF g = <<>> THEN <<>> ELSE <<<<"env", g[1]>>>>)
    \o (IF f = <<>> THEN <<>> ELSE <<<<"fibers_1", f[1]>>>>)
    \o (IF v = <<>> THEN <<>> ELSE <<<<"vibration_101", v[1]>>>>)

Opt(S) == {<<>>} \cup {<<x>> : x \in S}

\* One group of the store has any contents, the others are left out or hold
\* their default.
Stores ==
    {StoreOf(g, f, v) : g \in Opt(GenericGroups),
                        f \in Opt({DefaultFiberGroup}),
                        v \in Opt({DefaultVibrationGroup})}
    \cup {StoreOf(g, f, v) : g \in Opt({DefaultGenericGroup}),
                             f \in Opt(FiberGroups),
                             v \in Opt({DefaultVibrationGroup})}
    \cup {StoreOf(g, f, v) : g \in Opt({DefaultGenericGroup}),
                             f \in Opt({DefaultFiberGroup}),
                             v \in Opt(VibrationGroups)}

FiberNumbers == {1, 2}

SensorIds == {1, 2}

SensorRequests ==
    {[type |-> "int", value |-> s] : s \in SensorIds}
    \cup {[type |-> "list", value |-> l] :
            l \in UNION {[1..n -> SensorIds] : n \in 0..MaxRequest}}

VibrationNumbers == {101, 102}

OtherNames == {"env", "fibers_1", "load_temperature"}

(***************************************************************************)
(* The loaders as actions: each call reads the store and leaves an outcome.*)
(***************************************************************************)
NoTable == <<>>

NoFiber == [done |-> FALSE, right_indexer |-> <<>>, table |-> <<>>]

NoVibInput == [v101 |-> <<>>, v102 |-> <<>>, v103 |-> <<>>, sample_rate |-> 1]

NoVibration == [done |-> FALSE, blocks |-> <<>>, table |-> <<>>]

InitLoad ==
    /\ zarr_store \in Stores
    /\ call = NoCall
    /\ outcome = NoOutcome
    /\ fiber_1 = NoTable /\ fiber_2 = NoTable /\ fiber = NoFiber
    /\ vib_in = NoVibInput /\ vibration = NoVibration

LoadFiber ==
    /\ \E n \in FiberNumbers, s \in SensorRequests :
         /\ call' = [fn |-> "load_fiber_data", fiber_number |-> n, sensor_numbers |-> s]
         /\ outcome' = load_fiber_data(zarr_store, n, s)
    /\ UNCHANGED <<zarr_store, fiber_1, fiber_2, fiber, vib_in, vibration>>

LoadVibration ==
    /\ \E n \in VibrationNumbers :
         /\ call' = [fn |-> "load_vibration_data", vibration_number |-> n]
         /\ outcome' = load_vibration_data(zarr_store, n)
    /\ UNCHANGED <<zarr_store, fiber_1, fiber_2, fiber, vib_in, vibration>>

LoadOther ==
    /\ \E name \in OtherNames :
         /\ call' = [fn |-> "load_other", group_name |-> name]
         /\ outcome' = load_other(zarr_store, name)
    /\ UNCHANGED <<zarr_store, fiber_1, fiber_2, fiber, vib_in, vibration>>

NextLoad == LoadFiber \/ LoadVibration \/ LoadOther

SpecLoad == InitLoad /\ [][NextLoad]_vars

(***************************************************************************)
(* Properties of the loaders (checked under SpecLoad).                     *)
(***************************************************************************)
Called == call.fn # "none"

RequestedGroup ==
    IF call.fn = "load_fiber_data" THEN FiberGroupName(call.fiber_number)
    ELSE IF call.fn = "load_vibration_data" THEN VibrationGroupName(call.vibration_number)
    ELSE call.group_name

GroupExists == \E i \in 1..Len(zarr_store) : zarr_store[i][1] = RequestedGroup

\* The group the call resolved (only used where GroupExists).
TheGroup == Get(zarr_store, RequestedGroup)

HasKey(k) == \E i \in 1..Len(TheGroup) : TheGroup[i][1] = k

Requested == EnsureList(call.sensor_numbers)

\* The error kinds of the specification, by the exception and message raised.
IsGroupNotFound(o) ==
    o.raised = "KeyError" /\ o.message[1] = "Group not found in the Zarr store"

IsDatasetNotFound(o) ==
    /\ o.raised = "ValueError"
    /\ o.message[1] \in {"Dataset not found",
                         "Group must contain 'Timestamp' and 'Data' datasets"}

IsLengthMismatch(o) ==
    /\ o.raised = "ValueError"
    /\ o.message[1] \in {"Length mismatch", "Mismatch between timestamps and values"}

IsEmptyGroup(o) ==
    o.raised = "ValueError" /\ o.message[1] = "No datasets found in group"

IsNoDataColumns(o) ==
    o.raised = "ValueError" /\ o.message[1] = "No data columns found in group"

Range(q) == {q[i] : i \in 1..Len(q)}

\* C1: a loader called for a group that is not in the store raises
\* GroupNotFound before any dataset is examined, its message lists exactly
\* the names in the store (each once), and no table is returned.
C1_GroupNotFound ==
    (Called /\ ~GroupExists) =>
        /\ IsGroupNotFound(outcome)
        /\ outcome.examined = <<>>
        /\ outcome.message[2] = RequestedGroup
        /\ Range(outcome.message[3]) = {zarr_store[i][1] : i \in 1..Len(zarr_store)}
        /\ Len(outcome.message[3]) = Len(zarr_store)
        /\ ~outcome.returned

C1_Witness ==
    /\ call.fn = "load_other" /\ ~GroupExists
    /\ Len(zarr_store) = 3
    /\ IsGroupNotFound(outcome)

\* The requested sensors, in request order, up to and excluding the first
\* whose dataset key is absent from the group.
RECURSIVE BeforeFirstAbsent(_)
BeforeFirstAbsent(ids) ==
    IF ids = <<>> \/ ~HasKey(Str(Head(ids))) THEN <<>>
    ELSE <<Head(ids)>> \o BeforeFirstAbsent(Tail(ids))

SomeRequestedAbsent == \E i \in 1..Len(Requested) : ~HasKey(Str(Requested[i]))

AlignedWithKey0(id) == Len(Get(TheGroup, Str(id))) = Len(Get(TheGroup, "0"))

\* C2 as stated: with the group present, load_fiber_data raises
\* DatasetNotFound whenever key "0" or the key of any requested sensor is
\* absent, load_vibration_data whenever "Timestamp" or "Data" is absent, and
\* neither returns a table.
C2_Original ==
    /\ (call.fn = "load_fiber_data" /\ GroupExists
          /\ (~HasKey("0") \/ SomeRequestedAbsent))
         => (IsDatasetNotFound(outcome) /\ ~outcome.returned)
    /\ (call.fn = "load_vibration_data" /\ GroupExists
          /\ (~HasKey("Timestamp") \/ ~HasKey("Data")))
         => (IsDatasetNotFound(outcome) /\ ~outcome.returned)

\* C2 amended: with the group present, a call that meets an absent required
\* key returns no table; load_fiber_data raises DatasetNotFound when key "0"
\* is absent, or when a requested key is absent and every sensor requested
\* before the first absent one has the length of dataset "0"; if one of
\* those earlier sensors differs in length it raises LengthMismatch instead.
\* load_vibration_data raises DatasetNotFound unless both keys are present.
C2_DatasetNotFound ==
    /\ (call.fn = "load_fiber_data" /\ GroupExists /\ ~HasKey("0"))
         => (IsDatasetNotFound(outcome) /\ ~outcome.returned)
    /\ (call.fn = "load_fiber_data" /\ GroupExists /\ HasKey("0") /\ SomeRequestedAbsent)
         => /\ ~outcome.returned
            /\ IF \A id \in Range(BeforeFirstAbsent(Requested)) : AlignedWithKey0(id)
               THEN IsDatasetNotFound(outcome)
               ELSE IsLengthMismatch(outcome)
    /\ (call.fn = "load_vibration_data" /\ GroupExists
          /\ (~HasKey("Timestamp") \/ ~HasKey("Data")))
         => (IsDatasetNotFound(outcome) /\ ~outcome.returned)
    /\ (call.fn = "load_vibration_data" /\ GroupExists
          /\ HasKey("Timestamp") /\ HasKey("Data"))
         => ~IsDatasetNotFound(outcome)

C2_Witness ==
    /\ call.fn = "load_fiber_data" /\ GroupExists /\ HasKey("0")
    /\ Len(Requested) = 2 /\ HasKey(Str(Requested[1])) /\ ~HasKey(Str(Requested[2]))
    /\ IsDatasetNotFound(outcome)

\* The timestamp dataset of the resolved group, by the kind of call.
TimestampKey ==
    IF call.fn = "load_fiber_data" THEN "0"
    ELSE IF call.fn = "load_vibration_data" THEN "Timestamp"
    ELSE TimeKey

\* The value datasets the call loads when nothing stops it earlier.
LoadedValueKeys ==
    IF call.fn = "load_fiber_data"
    THEN {Str(id) : id \in Range(BeforeFirstAbsent(Requested))}
    ELSE IF call.fn = "load_vibration_data"
    THEN IF HasKey("Data") THEN {"Data"} ELSE {}
    ELSE {TheGroup[i][1] : i \in 1..Len(TheGroup)} \ {TimeKey}

\* C3 as stated: a returned table has every column as long as its timestamp
\* column, and a group with a loaded value dataset whose length differs from
\* the timestamp dataset's yields no table (LengthMismatch from the fiber and
\* vibration loaders).
C3_Original ==
    /\ (outcome.returned /\ Contains(outcome.df, "timestamp"))
         => \A i \in 1..Len(outcome.df) :
               Len(outcome.df[i][2]) = Len(Get(outcome.df, "timestamp"))
    /\ (Called /\ GroupExists /\ HasKey(TimestampKey)
          /\ (call.fn = "load_vibration_data" => HasKey("Data"))
          /\ \E k \in LoadedValueKeys :
                Len(Get(TheGroup, k)) # Len(Get(TheGroup, TimestampKey)))
         => /\ ~outcome.returned
            /\ call.fn \in {"load_fiber_data", "load_vibration_data"}
                 => IsLengthMismatch(outcome)

\* The column names the specification gives the fiber sensors.
SensorName == <<"sensor_1", "sensor_2", "sensor_3", "sensor_4", "sensor_5">>

RECURSIVE FirstOccurrences(_)
\* q without the repeats of an element already seen.
FirstOccurrences(q) ==
    IF q = <<>> THEN <<>>
    ELSE LET init == FirstOccurrences(SubSeq(q, 1, Len(q) - 1))
             last == q[Len(q)]
         IN  IF last \in Range(init) THEN init ELSE Append(init, last)

FiberLoadable ==
    /\ call.fn = "load_fiber_data" /\ GroupExists /\ HasKey("0")
    /\ \A i \in 1..Len(Requested) :
          HasKey(Str(Requested[i])) /\ AlignedWithKey0(Requested[i])

\* C4 as stated: a loadable fiber request returns the columns timestamp and
\* sensor_<id> for each id of the request, in request order, with as many
\* rows as dataset "0".
C4_Original ==
    FiberLoadable =>
        /\ outcome.returned
        /\ Keys(outcome.df) =
             <<"timestamp">> \o [i \in 1..Len(Requested) |-> SensorName[Requested[i]]]
        /\ \A i \in 1..Len(outcome.df) :
              Len(outcome.df[i][2]) = Len(Get(TheGroup, "0"))

\* C4 amended: a loadable fiber request returns the columns timestamp and
\* sensor_<id> for each distinct id of the request, in the order of first
\* occurrence; every column has the length of dataset "0" and holds the
\* dataset of its key; a single integer id gives the table of the
\* one-element list.
C4_FiberTable ==
    FiberLoadable =>
        /\ outcome.returned
        /\ Keys(outcome.df) =
             <<"timestamp">>
             \o [i \in 1..Len(FirstOccurrences(Requested)) |->
                   SensorName[FirstOccurrences(Requested)[i]]]
        /\ \A i \in 1..Len(outcome.df) :
              Len(outcome.df[i][2]) = Len(Get(TheGroup, "0"))
        /\ Get(outcome.df, "timestamp") = Get(TheGroup, "0")
        /\ \A i \in 1..Len(Requested) :
              Get(outcome.df, SensorName[Requested[i]])
                = Get(TheGroup, Str(Requested[i]))
        /\ call.sensor_numbers.type = "int"
             => Keys(outcome.df) = <<"timestamp", SensorName[call.sensor_numbers.value]>>

C4_Witness ==
    /\ FiberLoadable /\ outcome.returned
    /\ Requested = <<2, 1>>
    /\ Keys(outcome.df) = <<"timestamp", "sensor_2", "sensor_1">>
    /\ Len(Get(outcome.df, "timestamp")) = MaxLen

OtherKeys == Keys(TheGroup)

EqualLengths == \A i, j \in 1..Len(TheGroup) : Len(TheGroup[i][2]) = Len(TheGroup[j][2])

\* C5 as stated, for groups whose datasets all have one length: load_other
\* on an existing group raises EmptyGroup when the group has no datasets and
\* NoDataColumns when its only key is the time key; otherwise it returns one
\* column per stored key: timestamp first when the time key is present, then
\* every other key as its own column in stored order.
C5_Original ==
    (call.fn = "load_other" /\ GroupExists /\ EqualLengths) =>
        /\ OtherKeys = <<>> => IsEmptyGroup(outcome)
        /\ OtherKeys = <<TimeKey>> => IsNoDataColumns(outcome)
        /\ (OtherKeys # <<>> /\ OtherKeys # <<TimeKey>>) =>
              /\ outcome.returned
              /\ Len(outcome.df) = Len(OtherKeys)
              /\ Keys(outcome.df) =
                   (IF HasKey(TimeKey) THEN <<"timestamp">> ELSE <<>>)
                   \o SelectSeq(OtherKeys, LAMBDA k : k # TimeKey)
              /\ HasKey(TimeKey) =>
                    Get(outcome.df, "timestamp") = Get(TheGroup, TimeKey)

(***************************************************************************)
(* process_fibers                                                          *)
(*                                                                         *)
(* A DataFrame here is [columns, index, rows]: the column names in order,  *)
(* the index labels of the rows (1, 2, ... for a fresh frame) and, per     *)
(* row, the tuple of its cells in column order.  A datetime64[ns] cell of  *)
(* a fiber table holds its count of nanoseconds.                           *)
(***************************************************************************)
MaxRows == 3        \* most rows of a fiber table

NaN == <<>>

Frame(columns, rows) ==
    [columns |-> columns, index |-> [i \in 1..Len(rows) |-> i], rows |-> rows]

\* The position of column c in the frame, and the cell of row r under it.
Position(df, c) == CHOOSE k \in 1..Len(df.columns) : df.columns[k] = c

Cell(df, r, c) == df.rows[r][Position(df, c)]

\* fiber_2.rename(columns={...})
RenameFiber2 ==
    << <<"sensor_1", "f_sensor_2_1">>,
       <<"sensor_2", "f_sensor_2_2">>,
       <<"sensor_3", "f_sensor_2_3">>,
       <<"sensor_4", "f_sensor_2_4">>,
       <<"sensor_5", "f_sensor_2_5">> >>

\* fiber_1.rename(columns={...})
RenameFiber1 ==
    << <<"sensor_1", "f_sensor_1_1">>,
       <<"sensor_2", "f_sensor_1_2">>,
       <<"sensor_3", "f_sensor_1_3">>,
       <<"sensor_4", "f_sensor_1_4">>,
       <<"sensor_5", "f_sensor_1_5">> >>

\* DataFrame.rename(columns=names): a column the dict names takes its new
\* name, the others and the cells stay.
Rename(df, names) ==
    [df EXCEPT !.columns = [i \in 1..Len(df.columns) |->
                              IF Contains(names, df.columns[i])
                              THEN Get(names, df.columns[i])
                              ELSE df.columns[i]]]

\* pd.to_datetime(column, unit='ns'): an integer n becomes the instant n ns
\* after the epoch; a null stays null.
ToDatetimeNs(cell) == IF cell = NaN THEN NaN ELSE <<cell[1] * 1>>

\* df['timestamp'] = pd.to_datetime(df['timestamp'], unit='ns')
WithDatetimeNs(df) ==
    LET k == Position(df, "timestamp")
    IN  [df EXCEPT !.rows = [r \in 1..Len(df.rows) |->
                               [df.rows[r] EXCEPT ![k] = ToDatetimeNs(@)]]]

\* tolerance=pd.Timedelta('1ms'), in nanoseconds.
Tolerance == 1000000

\* Mutants of ExceedsTolerance: no tolerance is given to the join; the
\* tolerance excludes its boundary.
ToleranceIgnored(diff) == FALSE

ToleranceExclusive(diff) == diff >= Tolerance

\* merge_asof discards a candidate whose distance is more than the tolerance.
ExceedsTolerance(diff) == diff > Tolerance

MaxOf(S) == CHOOSE x \in S : \A y \in S : y <= x

MinOf(S) == CHOOSE x \in S : \A y \in S : x <= y

\* The last right row at or before t, 0 for none or for one out of tolerance.
AsofBackward(t, right_values) ==
    LET at_or_before == {j \in 1..Len(right_values) : right_values[j] <= t}
    IN  IF at_or_before = {} THEN 0
        ELSE IF ExceedsTolerance(t - right_values[MaxOf(at_or_before)]) THEN 0
        ELSE MaxOf(at_or_before)

\* The first right row at or after t, 0 for none or for one out of tolerance.
AsofForward(t, right_values) ==
    LET at_or_after == {j \in 1..Len(right_values) : right_values[j] >= t}
    IN  IF at_or_after = {} THEN 0
        ELSE IF ExceedsTolerance(right_values[MinOf(at_or_after)] - t) THEN 0
        ELSE MinOf(at_or_after)

\* direction='nearest': the closer of the two candidates, the backward one
\* when they are equally far.
AsofNearest(t, right_values) ==
    LET b == AsofBackward(t, right_values)
        f == AsofForward(t, right_values)
    IN  IF b # 0 /\ f # 0
        THEN IF t - right_values[b] <= right_values[f] - t THEN b ELSE f
        ELSE IF b # 0 THEN b ELSE f

KeyValues(df) ==
    LET k == Position(df, "timestamp")
    IN  [r \in 1..Len(df.rows) |-> df.rows[r][k][1]]

RightIndexer(left, right) ==
    [i \in 1..Len(left.rows) |-> AsofNearest(KeyValues(left)[i], KeyValues(right))]

\* pd.merge_asof(left, right, left_on='timestamp', right_on='timestamp', ...):
\* one row per left row; the left columns, then the right columns but the
\* key; the right cells are null where no right row matched.
MergeAsof(left, right) ==
    LET others  == {k \in 1..Len(right.columns) : right.columns[k] # "timestamp"}
        WithoutKey(q) == SelectSeq([k \in 1..Len(q) |-> <<k, q[k]>>],
                                   LAMBDA e : e[1] \in others)
        indexer == RightIndexer(left, right)
    IN  Frame(left.columns \o [k \in 1..Cardinality(others) |->
                                 WithoutKey(right.columns)[k][2]],
              [i \in 1..Len(left.rows) |->
                 left.rows[i]
                 \o [k \in 1..Cardinality(others) |->
                       IF indexer[i] = 0 THEN NaN
                       ELSE WithoutKey(right.rows[indexer[i]])[k][2]]])

\* DataFrame.drop(name, axis=1)
DropColumn(df, name) ==
    LET Without(q) ==
            LET tagged == SelectSeq([k \in 1..Len(q) |-> <<df.columns[k], q[k]>>],
                                    LAMBDA e : e[1] # name)
            IN  [k \in 1..Len(tagged) |-> tagged[k][2]]
    IN  [df EXCEPT !.columns = Without(df.columns),
                   !.rows = [r \in 1..Len(df.rows) |-> Without(df.rows[r])]]

RECURSIVE KeptPositions(_, _)
\* The positions 1..n of the rows without a null cell, in order.
KeptPositions(df, n) ==
    IF n = 0 THEN <<>>
    ELSE LET before == KeptPositions(df, n - 1)
         IN  IF \E k \in 1..Len(df.columns) : df.rows[n][k] = NaN
             THEN before ELSE Append(before, n)

\* Mutant of DropNa: the rows with a null cell stay.
KeepNa(df) == df

\* DataFrame.dropna(): the rows with a null cell go, the others keep their
\* order and their index labels.
DropNa(df) ==
    LET kept == KeptPositions(df, Len(df.rows))
    IN  [df EXCEPT !.index = [i \in 1..Len(kept) |-> df.index[kept[i]]],
                   !.rows  = [i \in 1..Len(kept) |-> df.rows[kept[i]]]]

process_fibers(f1, f2) ==
    LET right  == WithDatetimeNs(Rename(f2, RenameFiber2))
        left   == WithDatetimeNs(Rename(f1, RenameFiber1))
        merged == MergeAsof(left, right)
    IN  DropNa(DropColumn(merged, "f_sensor_2_5"))

(***************************************************************************)
(* The fiber tables process_fibers is tried on: as load_fiber_data returns *)
(* them for sensors 1..5, sorted ascending by timestamp: any timestamps of *)
(* Instants1 and Instants2 with every reading present, or timestamps of    *)
(* NullInstants1 and NullInstants2 with at most one null reading a table.  *)
(***************************************************************************)
FiberColumns ==
    <<"timestamp", "sensor_1", "sensor_2", "sensor_3", "sensor_4", "sensor_5">>

Ms == 1000000       \* nanoseconds in a millisecond

Instants1 == {0, 5 * Ms, 10 * Ms}

Instants2 == {1 * Ms, 1 * Ms + 1, 4 * Ms, 5 * Ms, 6 * Ms, 9 * Ms}

NullInstants1 == {0, 5 * Ms}

NullInstants2 == {1 * Ms, 4 * Ms}

SortedSeqs(S) ==
    UNION {{q \in [1..n -> S] : \A i \in 1..(n - 1) : q[i] <= q[i + 1]} :
             n \in 0..MaxRows}

NullSensors == {"sensor_1", "sensor_5"}

\* The cell of sensor column c in row r of table f (f is 1 or 2).
Reading(f, r, c) ==
    <<100 * f + 10 * r
        + (CHOOSE k \in 1..5 : FiberColumns[k + 1] = c)>>

\* The table of fiber f with the given timestamps; nulls is the set of
\* <<row, column>> cells that are null.
FiberTable(f, timestamps, nulls) ==
    Frame(FiberColumns,
          [r \in 1..Len(timestamps) |->
             [k \in 1..Len(FiberColumns) |->
                IF FiberColumns[k] = "timestamp" THEN <<timestamps[r]>>
                ELSE IF <<r, FiberColumns[k]>> \in nulls THEN NaN
                ELSE Reading(f, r, FiberColumns[k])]])

OneNullOrNone(n) == {{}} \cup {{<<r, c>>} : r \in 1..n, c \in NullSensors}

InitFibers ==
    /\ zarr_store = <<>> /\ call = NoCall /\ outcome = NoOutcome
    /\ vib_in = NoVibInput /\ vibration = NoVibration
    /\ fiber = NoFiber
    /\ \/ \E t1 \in SortedSeqs(Instants1), t2 \in SortedSeqs(Instants2) :
               /\ fiber_1 = FiberTable(1, t1, {})
               /\ fiber_2 = FiberTable(2, t2, {})
       \/ \E t1 \in SortedSeqs(NullInstants1), t2 \in SortedSeqs(NullInstants2) :
            \E nulls1 \in OneNullOrNone(Len(t1)), nulls2 \in OneNullOrNone(Len(t2)) :
               /\ fiber_1 = FiberTable(1, t1, nulls1)
               /\ fiber_2 = FiberTable(2, t2, nulls2)

ProcessFibers ==
    /\ fiber' = [done |-> TRUE,
                 right_indexer |-> RightIndexer(fiber_1, fiber_2),
                 table |-> process_fibers(fiber_1, fiber_2)]
    /\ UNCHANGED <<zarr_store, call, outcome, fiber_1, fiber_2, vib_in, vibration>>

NextFibers == ProcessFibers

SpecFibers == InitFibers /\ [][NextFibers]_vars

(***************************************************************************)
(* Properties of process_fibers (checked under SpecFibers).                *)
(***************************************************************************)
Abs(x) == IF x < 0 THEN -x ELSE x

F1Name == <<"f_sensor_1_1", "f_sensor_1_2", "f_sensor_1_3", "f_sensor_1_4",
            "f_sensor_1_5">>

F2Name == <<"f_sensor_2_1", "f_sensor_2_2", "f_sensor_2_3", "f_sensor_2_4">>

\* The original timestamp of row p of an input table, in nanoseconds.
InstantOf(input, p) == Cell(input, p, "timestamp")[1]

\* Output row i carries the timestamp and the readings of fiber_1 row p.
FromLeft(i, p) ==
    /\ Cell(fiber.table, i, "timestamp") = <<InstantOf(fiber_1, p)>>
    /\ \A k \in 1..5 :
          Cell(fiber.table, i, F1Name[k]) = Cell(fiber_1, p, SensorName[k])

\* Output row i carries the readings 1..4 of fiber_2 row j.
PairedWith(i, j) ==
    \A k \in 1..4 : Cell(fiber.table, i, F2Name[k]) = Cell(fiber_2, j, SensorName[k])

Distance(p, j) == Abs(InstantOf(fiber_1, p) - InstantOf(fiber_2, j))

\* C6: every output row is a fiber_1 row (the one its index label names)
\* paired with a fiber_2 row that no other fiber_2 row is closer to in time,
\* the two timestamps at most 1 ms apart; a fiber_1 row with every fiber_2
\* timestamp more than 1 ms away is not in the output.
C6_NearestWithinTolerance ==
    fiber.done =>
        /\ \A i \in 1..Len(fiber.table.rows) :
              LET p == fiber.table.index[i]
              IN  /\ p \in 1..Len(fiber_1.rows)
                  /\ FromLeft(i, p)
                  /\ \E j \in 1..Len(fiber_2.rows) :
                        /\ PairedWith(i, j)
                        /\ Distance(p, j) <= Ms
                        /\ \A j2 \in 1..Len(fiber_2.rows) :
                              Distance(p, j) <= Distance(p, j2)
        /\ \A p \in 1..Len(fiber_1.rows) :
              (\A j \in 1..Len(fiber_2.rows) : Distance(p, j) > Ms)
                 => p \notin Range(fiber.table.index)

C6_Witness ==
    /\ fiber.done
    /\ Len(fiber_1.rows) = 3 /\ Len(fiber_2.rows) = 3
    /\ fiber.table.index = <<1, 3>>
    /\ \A j \in 1..3 : Distance(2, j) > Ms
    /\ Distance(1, 1) = Ms /\ Distance(1, 2) = Ms + 1

Scenario3 ==
    /\ KeyValues(fiber_1) = <<0, 5 * Ms, 10 * Ms>>
    /\ KeyValues(fiber_2) = <<1 * Ms, 4 * Ms, 9 * Ms>>
    /\ \A r \in 1..3, k \in 1..5 :
          Cell(fiber_1, r, SensorName[k]) # NaN /\ Cell(fiber_2, r, SensorName[k]) # NaN

\* C7 as stated: with fiber_1 at 0, 5, 10 ms and fiber_2 at 1, 4, 9 ms, the
\* row at 0 ms has no match and is dropped, the row at 5 ms is matched to
\* 4 ms and the row at 10 ms to 9 ms.
C7_Original ==
    (fiber.done /\ Scenario3) =>
        /\ fiber.table.index = <<2, 3>>
        /\ FromLeft(1, 2) /\ PairedWith(1, 2)
        /\ FromLeft(2, 3) /\ PairedWith(2, 3)

\* C7 amended: with fiber_1 at 0, 5, 10 ms and fiber_2 at 1, 4, 9 ms, every
\* row is matched, the tolerance being inclusive: 0 ms to 1 ms, 5 ms to 4 ms
\* and 10 ms to 9 ms, and the output keeps all three rows.
C7_Scenario3 ==
    (fiber.done /\ Scenario3) =>
        /\ fiber.table.index = <<1, 2, 3>>
        /\ \A i \in 1..3 : FromLeft(i, i) /\ PairedWith(i, i)

C7_Witness == fiber.done /\ Scenario3 /\ Len(fiber.table.rows) = 3

OutputInstant(i) == Cell(fiber.table, i, "timestamp")[1]

FiberShape ==
    /\ fiber.table.columns = <<"timestamp">> \o F1Name \o F2Name
    /\ "f_sensor_2_5" \notin Range(fiber.table.columns)
    /\ \A i \in 1..Len(fiber.table.rows) :
          /\ Len(fiber.table.rows[i]) = Len(fiber.table.columns)
          /\ \A k \in 1..Len(fiber.table.columns) : fiber.table.rows[i][k] # NaN
    /\ Len(fiber.table.rows) <= Len(fiber_1.rows)

\* C8 as stated: the output has the columns timestamp, f_sensor_1_1..5,
\* f_sensor_2_1..4, no column f_sensor_2_5, no null cell, at most
\* len(fiber_1) rows, and a strictly increasing timestamp column.
C8_Original ==
    fiber.done =>
        /\ FiberShape
        /\ \A i \in 1..(Len(fiber.table.rows) - 1) :
              OutputInstant(i) < OutputInstant(i + 1)

\* C8 amended: the output has the columns timestamp, f_sensor_1_1..5,
\* f_sensor_2_1..4, no column f_sensor_2_5, no null cell, at most
\* len(fiber_1) rows, and a non-decreasing timestamp column, which is
\* strictly increasing when fiber_1 has no two rows with one timestamp.
C8_FiberOutput ==
    fiber.done =>
        /\ FiberShape
        /\ \A i \in 1..(Len(fiber.table.rows) - 1) :
              OutputInstant(i) <= OutputInstant(i + 1)
        /\ (\A p \in 1..(Len(fiber_1.rows) - 1) :
               InstantOf(fiber_1, p) < InstantOf(fiber_1, p + 1))
             => \A i \in 1..(Len(fiber.table.rows) - 1) :
                   OutputInstant(i) < OutputInstant(i + 1)

C8_Witness ==
    /\ fiber.done
    /\ Len(fiber_1.rows) = 3 /\ Len(fiber.table.rows) = 2
    /\ \E p \in 1..3 : Cell(fiber_1, p, "sensor_1") = NaN
    /\ \E i \in 1..2, j \in 1..Len(fiber_2.rows) :
          PairedWith(i, j) /\ Cell(fiber_2, j, "sensor_5") = NaN

(***************************************************************************)
(* process_vibration                                                       *)
(*                                                                         *)
(* A datetime64[ns] cell of the vibration table holds <<seconds,           *)
(* nanoseconds>> with 0 <= nanoseconds < 10^9, since its count of          *)
(* nanoseconds since the epoch does not fit 32 bits; a timedelta is held   *)
(* the same way.                                                           *)
(***************************************************************************)
MaxSamples == 5     \* most rows of a vibration table

NaT == <<>>

NsPerSecond == 1000000000

\* One column of a frame with the index labels of its rows.
Series(df, c) ==
    [index |-> df.index, values |-> [r \in 1..Len(df.rows) |-> Cell(df, r, c)]]

\* df[name] = series: the series is aligned on the index labels of df, a
\* label the series lacks gets a null; a new column goes last, an existing
\* one is replaced in place.
SetColumn(df, name, series) ==
    LET ValueAt(label) ==
            IF \E k \in 1..Len(series.index) : series.index[k] = label
            THEN series.values[CHOOSE k \in 1..Len(series.index) :
                                  series.index[k] = label]
            ELSE NaN
    IN  IF name \in Range(df.columns)
        THEN [df EXCEPT !.rows = [r \in 1..Len(df.rows) |->
                                    [df.rows[r] EXCEPT ![Position(df, name)] =
                                       ValueAt(df.index[r])]]]
        ELSE [df EXCEPT !.columns = Append(df.columns, name),
                        !.rows = [r \in 1..Len(df.rows) |->
                                    Append(df.rows[r], ValueAt(df.index[r]))]]

\* pd.to_datetime(column, unit='s') of a whole number of seconds; a null
\* becomes NaT.
ToDatetimeS(cell) == IF cell = NaN THEN NaT ELSE <<<<cell[1], 0>>>>

SeriesToDatetimeS(series) ==
    [series EXCEPT !.values = [r \in 1..Len(series.values) |->
                                 ToDatetimeS(series.values[r])]]

\* vibration['timestamp'].notna().cumsum()
Blocks(df) ==
    [r \in 1..Len(df.rows) |->
       Cardinality({k \in 1..r : Cell(df, k, "timestamp") # NaT})]

\* vibration.groupby(blocks)['timestamp'].transform('first'): for each row,
\* the first non-null timestamp of the rows of its block, NaT if none.
BlockStart(df, blocks) ==
    [index |-> df.index,
     values |-> [r \in 1..Len(df.rows) |->
                   LET members == {k \in 1..Len(df.rows) :
                                     /\ blocks[k] = blocks[r]
                                     /\ Cell(df, k, "timestamp") # NaT}
                   IN  IF members = {} THEN NaT
                       ELSE Cell(df, MinOf(members), "timestamp")]]

\* Mutant of CumCount: the rows of a block are counted from one.
CumCountFromOne(blocks, r) == Cardinality({k \in 1..r : blocks[k] = blocks[r]})

\* vibration.groupby(blocks).cumcount(): the number of earlier rows of the
\* same block.
CumCount(blocks, r) == Cardinality({k \in 1..(r - 1) : blocks[k] = blocks[r]})

SampleIndex(df, blocks) ==
    [index |-> df.index,
     values |-> [r \in 1..Len(df.rows) |-> <<CumCount(blocks, r)>>]]

\* pd.to_timedelta(sample_index / sample_rate, unit='s'): the quotient in
\* seconds, to the nearest nanosecond.
ToTimedelta(sample_index, sample_rate) ==
    LET m == sample_index % sample_rate
        q == NsPerSecond \div sample_rate
        r == NsPerSecond % sample_rate
        ns == m * q + ((2 * m * r + sample_rate) \div (2 * sample_rate))
    IN  <<(sample_index \div sample_rate) + (ns \div NsPerSecond), ns % NsPerSecond>>

AddTimedelta(instant, delta) ==
    <<instant[1] + delta[1] + ((instant[2] + delta[2]) \div NsPerSecond),
      (instant[2] + delta[2]) % NsPerSecond>>

\* block_start + pd.to_timedelta(sample_index / sample_rate, unit='s')
Reconstructed(df, sample_rate) ==
    [index |-> df.index,
     values |-> [r \in 1..Len(df.rows) |->
                   IF Cell(df, r, "block_start") = NaT THEN NaT
                   ELSE <<AddTimedelta(Cell(df, r, "block_start")[1],
                                       ToTimedelta(Cell(df, r, "sample_index")[1],
                                                   sample_rate))>>]]

\* Mutant of DropWorkingColumns: the working columns stay.
KeepWorkingColumns(df) == df

\* vibration.drop(columns=['block_start', 'sample_index'], inplace=True)
DropWorkingColumns(df) == DropColumn(DropColumn(df, "block_start"), "sample_index")

process_vibration(vibration_101, vibration_102, vibration_103, sample_rate) ==
    LET v101 == Rename(vibration_101, <<<<"data", "vib_101">>>>)
        v102 == Rename(vibration_102, <<<<"data", "vib_102">>>>)
        v103 == Rename(vibration_103, <<<<"data", "vib_103">>>>)
        combined == SetColumn(SetColumn(v101, "vib_102", Series(v102, "vib_102")),
                              "vib_103", Series(v103, "vib_103"))
        dated == SetColumn(combined, "timestamp",
                           SeriesToDatetimeS(Series(combined, "timestamp")))
        blocks == Blocks(dated)
        started == SetColumn(dated, "block_start", BlockStart(dated, blocks))
        indexed == SetColumn(started, "sample_index", SampleIndex(started, blocks))
        stamped == SetColumn(indexed, "timestamp", Reconstructed(indexed, sample_rate))
    IN  [blocks |-> blocks, table |-> DropWorkingColumns(stamped)]

(***************************************************************************)
(* The channel tables process_vibration is tried on: as                    *)
(* load_vibration_data returns them, the timestamp column sparse.          *)
(***************************************************************************)
RawInstants == {NaN, <<0>>, <<1>>}

SampleRates == {3, 4, 25000}

\* The table of a channel: the given timestamp cells, a reading per row.
ChannelTable(channel, timestamps) ==
    Frame(<<"timestamp", "data">>,
          [r \in 1..Len(timestamps) |-> <<timestamps[r], <<10 * channel + r>>>>])

\* The lengths of the other two channels: that of the base channel, one
\* less or one more.
NearLengths(n) == {k \in {n - 1, n, n + 1} : k >= 0}

InitVibration ==
    /\ zarr_store = <<>> /\ call = NoCall /\ outcome = NoOutcome
    /\ fiber_1 = NoTable /\ fiber_2 = NoTable /\ fiber = NoFiber
    /\ vibration = NoVibration
    /\ \E n \in 0..MaxSamples :
         \E t \in [1..n -> RawInstants], n2 \in NearLengths(n), n3 \in NearLengths(n),
            rate \in SampleRates :
            vib_in = [v101 |-> ChannelTable(101, t),
                      v102 |-> ChannelTable(102, [r \in 1..n2 |-> NaN]),
                      v103 |-> ChannelTable(103, [r \in 1..n3 |-> NaN]),
                      sample_rate |-> rate]

ProcessVibration ==
    /\ vibration' =
         [done |-> TRUE] @@ process_vibration(vib_in.v101, vib_in.v102, vib_in.v103,
                                              vib_in.sample_rate)
    /\ UNCHANGED <<zarr_store, call, outcome, fiber_1, fiber_2, fiber, vib_in>>

NextVibration == ProcessVibration

SpecVibration == InitVibration /\ [][NextVibration]_vars

(***************************************************************************)
(* Properties of process_vibration (checked under SpecVibration).          *)
(***************************************************************************)
\* The raw timestamp cell of row r of the base channel: NaN, or <<seconds>>.
Raw(r) == Cell(vib_in.v101, r, "timestamp")

AnchorsUpTo(r) == {k \in 1..r : Raw(k) # NaN}

\* The block of row r, counted on the input.
BlockOf(r) == Cardinality(AnchorsUpTo(r))

\* The anchor row of the block of row r (where the block has one).
AnchorRow(r) == MaxOf(AnchorsUpTo(r))

Stamp(r) == Cell(vibration.table, r, "timestamp")

\* instant is t_b seconds plus i / rate seconds, to the nearest nanosecond.
ExactlyAt(instant, t_b, i, rate) ==
    LET m == i % rate
        q == NsPerSecond \div rate
        rest == NsPerSecond % rate
        e == instant[2] - m * q
    IN  /\ instant[1] = t_b + (i \div rate)
        /\ e \in 0..rate
        /\ 2 * Abs(e * rate - m * rest) <= rate

\* C9: the block of a row is the number of non-null anchor timestamps of the
\* base channel up to and including the row; a row at 0-based position i of
\* a block anchored at t_b gets the timestamp t_b + i / sample_rate, so an
\* anchor row keeps its own instant.
C9_Reconstruction ==
    vibration.done =>
        \A r \in 1..Len(vib_in.v101.rows) :
           /\ vibration.blocks[r] = BlockOf(r)
           /\ BlockOf(r) >= 1 =>
                 /\ Stamp(r) # NaT
                 /\ ExactlyAt(Stamp(r)[1], Raw(AnchorRow(r))[1], r - AnchorRow(r),
                              vib_in.sample_rate)
           /\ Raw(r) # NaN => Stamp(r) = <<<<Raw(r)[1], 0>>>>

\* Scenario 4: anchors at rows 0 (0 s) and 4 (1 s), sample_rate 4.
C9_Witness ==
    /\ vibration.done
    /\ vib_in.sample_rate = 4
    /\ [r \in 1..Len(vib_in.v101.rows) |-> Raw(r)] = <<<<0>>, NaN, NaN, NaN, <<1>>>>
    /\ vibration.blocks = <<1, 1, 1, 1, 2>>
    /\ [r \in 1..Len(vibration.table.rows) |-> Stamp(r)]
         = << <<<<0, 0>>>>, <<<<0, 250000000>>>>, <<<<0, 500000000>>>>,
              <<<<0, 750000000>>>>, <<<<1, 0>>>> >>

\* a is an earlier instant than b; false when either is NaT.
Earlier(a, b) ==
    /\ a # NaT /\ b # NaT
    /\ a[1][1] < b[1][1] \/ (a[1][1] = b[1][1] /\ a[1][2] < b[1][2])

\* The reading of a channel at row r, null where the channel has no row r.
ReadingAt(channel, r) ==
    IF r <= Len(channel.rows) THEN Cell(channel, r, "data") ELSE NaN

\* C10: the output has exactly the columns timestamp, vib_101, vib_102,
\* vib_103, one row per row of the base channel in the base channel's order
\* (the other channels joined by row position), and within a block the
\* timestamp never decreases from a row to a later one: the rows of a block
\* with an anchor have timestamps in ascending order, the rows before the
\* first anchor have none.
C10_VibrationOutput ==
    vibration.done =>
        /\ vibration.table.columns = <<"timestamp", "vib_101", "vib_102", "vib_103">>
        /\ Len(vibration.table.rows) = Len(vib_in.v101.rows)
        /\ vibration.table.index = vib_in.v101.index
        /\ \A r \in 1..Len(vibration.table.rows) :
              /\ Len(vibration.table.rows[r]) = 4
              /\ Cell(vibration.table, r, "vib_101") = Cell(vib_in.v101, r, "data")
              /\ Cell(vibration.table, r, "vib_102") = ReadingAt(vib_in.v102, r)
              /\ Cell(vibration.table, r, "vib_103") = ReadingAt(vib_in.v103, r)
              /\ BlockOf(r) = 0 <=> Stamp(r) = NaT
        /\ \A r1, r2 \in 1..Len(vibration.table.rows) :
              (r1 < r2 /\ BlockOf(r1) = BlockOf(r2)) =>
                 /\ ~Earlier(Stamp(r2), Stamp(r1))
                 /\ BlockOf(r1) >= 1 => Earlier(Stamp(r1), Stamp(r2))

C10_Witness ==
    /\ vibration.done
    /\ Len(vibration.table.rows) = 5
    /\ Len(vib_in.v102.rows) = 4 /\ Len(vib_in.v103.rows) = 6
    /\ Raw(1) = NaN /\ Raw(2) # NaN /\ Raw(3) = NaN /\ Raw(4) # NaN /\ Raw(5) = NaN
    /\ Stamp(1) = NaT /\ Earlier(Stamp(2), Stamp(3))
    /\ Cell(vibration.table, 5, "vib_102") = NaN

====
